---- MODULE Spec2Model ----
(***************************************************************************)
(* Model of src/sys/windows/rt.rs: the IOCP-backed runtime of mio on       *)
(* Windows.  Caller threads use Rt::global, Poll::global, Drop for Poll,   *)
(* Rt::associate_socket and Poll::poll; the thread spawned by the          *)
(* initializer runs RtInner::init.  The completion port itself is the      *)
(* kernel's: its queue, its association table and the results of its       *)
(* calls are the environment of the program.                               *)
(***************************************************************************)
EXTENDS Integers, Sequences, FiniteSets, TLC

\* ------------------------------------------------------------------ bounds
NumThreads == 2      \* caller threads
MaxLeases == 2       \* Poll values alive or under construction at a time
MaxOps == 2          \* asynchronous operations the environment completes
MaxPending == 130    \* operations it completes in the drain-only specification

\* --------------------------------------------------------------- constants
\* refs is an AtomicUsize: fetch_add / fetch_sub wrap.  The wrap-around is kept,
\* at 16 bits (TLC's integers are narrower than a 64-bit usize).
UsizeModulus == 65536
\* The completion key associate_socket passes for every socket.
CompletionKey == 123
\* The length of the entries array handed to GetQueuedCompletionStatusEx.
BatchCapacity == 128

Threads == 1..NumThreads
\* In SpecIO one thread registers sockets and another one polls.
Producer == 1
Consumer == 2
\* api::HANDLE values: NULL and the handles the kernel may give to a new port.
NULL == 0
PortHandles == {16}
\* api::SOCKET arguments: two sockets, and 99, a value that is no socket at all.
Sockets == {1, 2}
SocketArgs == Sockets \cup {99}
\* GetLastError() values after a failed CreateIoCompletionPort(INVALID_HANDLE_VALUE, ..).
CreateErrors == {8, 1450}
\* GetLastError() after a failed association.
AssocError == 87
\* Byte counts and NTSTATUS values of completed operations.
ByteCounts == {42}
Statuses == {0, 5}

\* Option<Result<RtInner, i32>> and io::Result values: a tag and a payload.
Val(tag, val) == [tag |-> tag, val |-> val]
None == Val("None", 0)
Ok(v) == Val("Ok", v)
Err(e) == Val("Err", e)
Panic(msg) == Val(msg, 0)

VARIABLES
  INIT,      \* the sync::Once of RtInner::global: "new", "running", "done"
  GLOBAL,    \* static mut GLOBAL
  inner,     \* the initializer's local: the result of RtInner::new()
  refs,      \* RtInner.refs
  pc,        \* where each caller thread is
  op,        \* the operation a caller thread is in or was last in, with its argument
  ret,       \* what a caller thread's last operation returned
  lrefs,     \* the local `refs` of Poll::global / drop: the value fetch_* returned
  rt,        \* whether the thread holds an Rt
  polls,     \* how many Poll values the thread holds
  wpc,       \* where the spawned thread is
  wmsg,      \* the spawned thread's panic message, "" while it has none
  wcause,    \* why its last wait returned FALSE: "none", "timeout", "error"
  entries,   \* the spawned thread's entries array: the records of the last batch
  count,     \* ... and how many of them the kernel filled in
  events,    \* the completion events the spawned thread has traced, in order
  taken,     \* the records poll() calls have dequeued
  ports,     \* kernel: the handles of the completion ports that are open
  assoc,     \* kernel: the port and key each socket is associated with
  queue,     \* kernel: the completion port's queue
  nextTok,   \* kernel: the OVERLAPPED of the next operation to complete
  newCalls,  \* how many times RtInner::new has run
  spawns     \* how many times thread::spawn has run

vars == <<INIT, GLOBAL, inner, refs, pc, op, ret, lrefs, rt, polls, wpc, wmsg,
          wcause, entries, count, events, taken, ports, assoc, queue, nextTok,
          newCalls, spawns>>

callerVars == <<pc, op, ret, lrefs, rt, polls>>
workerVars == <<wpc, wmsg, wcause, entries, count, events>>
kernelVars == <<ports, assoc, queue, nextTok>>
onceVars == <<INIT, GLOBAL, inner, newCalls, spawns>>

\* An operation: its name, its argument, and for a poll that has returned what
\* the kernel's wait did ("dequeued", "failed_op", "timeout").
NoOp == [name |-> "none", arg |-> 0, wait |-> ""]
Call(name, arg) == [name |-> name, arg |-> arg, wait |-> ""]
Unassociated == [port |-> NULL, key |-> 0]

Init ==
  /\ INIT = "new"
  /\ GLOBAL = None
  /\ inner = None
  /\ refs = 0
  /\ pc = [t \in Threads |-> "idle"]
  /\ op = [t \in Threads |-> NoOp]
  /\ ret = [t \in Threads |-> None]
  /\ lrefs = [t \in Threads |-> 0]
  /\ rt = [t \in Threads |-> FALSE]
  /\ polls = [t \in Threads |-> 0]
  /\ wpc = "unspawned"
  /\ wmsg = ""
  /\ wcause = "none"
  /\ entries = <<>>
  /\ count = 0
  /\ events = <<>>
  /\ taken = {}
  /\ ports = {}
  /\ assoc = [s \in Sockets |-> Unassociated]
  /\ queue = <<>>
  /\ nextTok = 1
  /\ newCalls = 0
  /\ spawns = 0


\* ------------------------------------------------- RtInner::global, lines 72-103
PanicTags == {"should be set by now", "assertion failed: res == api::TRUE"}
IsPanic(r) == r.tag \in PanicTags

\* The Poll values the threads hold, and those whose construction has begun.
RECURSIVE Sum(_, _)
Sum(f, S) == IF S = {} THEN 0
             ELSE LET x == CHOOSE y \in S : TRUE IN f[x] + Sum(f, S \ {x})
LiveLeases == Sum(polls, Threads)
Constructing == {t \in Threads : /\ op[t].name = "Poll::global"
                                 /\ pc[t] \notin {"idle", "panicked"}}

\* A call of Rt::global or Poll::global begins: both call RtInner::global first.
EnterGlobal(t, entry) ==
  /\ pc[t] = "idle"
  /\ entry = "Poll::global" => LiveLeases + Cardinality(Constructing) < MaxLeases
  /\ pc' = [pc EXCEPT ![t] = "call_once"]
  /\ op' = [op EXCEPT ![t] = Call(entry, 0)]
  /\ ret' = [ret EXCEPT ![t] = None]
  /\ UNCHANGED <<lrefs, rt, polls, refs>>
  /\ UNCHANGED <<onceVars, workerVars, kernelVars, taken>>

\* A Once that lets every caller that finds the closure not yet complete run it.
CallOnce_unguarded(t) ==
  /\ pc[t] = "call_once"
  /\ IF INIT # "done"
       THEN INIT' = "running" /\ pc' = [pc EXCEPT ![t] = "new"]
       ELSE INIT' = INIT /\ pc' = [pc EXCEPT ![t] = "match_global"]
  /\ UNCHANGED <<GLOBAL, inner, newCalls, spawns, op, ret, lrefs, rt, polls, refs>>
  /\ UNCHANGED <<workerVars, kernelVars, taken>>

\* A Once that runs the closure again when the cached result is a failure.
CallOnce_retry(t) ==
  /\ pc[t] = "call_once"
  /\ INIT # "running"
  /\ IF INIT = "new" \/ GLOBAL.tag = "Err"
       THEN INIT' = "running" /\ pc' = [pc EXCEPT ![t] = "new"]
       ELSE INIT' = INIT /\ pc' = [pc EXCEPT ![t] = "match_global"]
  /\ UNCHANGED <<GLOBAL, inner, newCalls, spawns, op, ret, lrefs, rt, polls, refs>>
  /\ UNCHANGED <<workerVars, kernelVars, taken>>

\* A Once whose callers do not wait for a closure that is still running.
CallOnce_nowait(t) ==
  /\ pc[t] = "call_once"
  /\ IF INIT = "new"
       THEN INIT' = "running" /\ pc' = [pc EXCEPT ![t] = "new"]
       ELSE INIT' = INIT /\ pc' = [pc EXCEPT ![t] = "match_global"]
  /\ UNCHANGED <<GLOBAL, inner, newCalls, spawns, op, ret, lrefs, rt, polls, refs>>
  /\ UNCHANGED <<workerVars, kernelVars, taken>>

\* INIT.call_once: the first caller runs the closure, a caller that arrives while
\* it runs blocks until it is complete, a later caller passes straight through.
CallOnce(t) ==
  /\ pc[t] = "call_once"
  /\ INIT # "running"
  /\ IF INIT = "new"
       THEN INIT' = "running" /\ pc' = [pc EXCEPT ![t] = "new"]
       ELSE INIT' = INIT /\ pc' = [pc EXCEPT ![t] = "match_global"]
  /\ UNCHANGED <<GLOBAL, inner, newCalls, spawns, op, ret, lrefs, rt, polls, refs>>
  /\ UNCHANGED <<workerVars, kernelVars, taken>>

\* RtInner::new, lines 106-125: CreateIoCompletionPort(INVALID_HANDLE_VALUE, NULL, 0, 1)
\* gave the handle iocp, with GetLastError() = e when it is NULL.
RtInner_new(iocp, e) ==
  IF iocp = NULL THEN Err(e) ELSE Ok(iocp)

RunNew(t) ==
  /\ pc[t] = "new"
  /\ \E iocp \in (PortHandles \ ports) \cup {NULL}, e \in CreateErrors :
       /\ iocp # NULL => e = 8  \* last_os_error() is read only after a failure
       /\ inner' = RtInner_new(iocp, e)
       /\ refs' = IF iocp = NULL THEN refs ELSE 0
       /\ ports' = IF iocp = NULL THEN ports ELSE ports \cup {iocp}
  /\ newCalls' = newCalls + 1
  /\ pc' = [pc EXCEPT ![t] = "set_global"]
  /\ UNCHANGED <<INIT, GLOBAL, spawns, op, ret, lrefs, rt, polls>>
  /\ UNCHANGED <<workerVars, assoc, queue, nextTok, taken>>

\* An initializer that spawns the thread whatever RtInner::new returned.
SetGlobal_always_spawn(t) ==
  /\ pc[t] = "set_global"
  /\ GLOBAL' = inner
  /\ pc' = [pc EXCEPT ![t] = "spawn"]
  /\ UNCHANGED <<INIT, inner, newCalls, spawns, op, ret, lrefs, rt, polls, refs>>
  /\ UNCHANGED <<workerVars, kernelVars, taken>>

\* An initializer that leaves the start of the thread to the first lease.
SetGlobal_nospawn(t) ==
  /\ pc[t] = "set_global"
  /\ GLOBAL' = inner
  /\ pc' = [pc EXCEPT ![t] = "once_done"]
  /\ UNCHANGED <<INIT, inner, newCalls, spawns, op, ret, lrefs, rt, polls, refs>>
  /\ UNCHANGED <<workerVars, kernelVars, taken>>

\* Lines 81-82: spawn = inner.is_ok(); GLOBAL = Some(inner.map_err(raw_os_error)).
SetGlobal(t) ==
  /\ pc[t] = "set_global"
  /\ GLOBAL' = inner
  /\ pc' = [pc EXCEPT ![t] = IF inner.tag = "Ok" THEN "spawn" ELSE "once_done"]
  /\ UNCHANGED <<INIT, inner, newCalls, spawns, op, ret, lrefs, rt, polls, refs>>
  /\ UNCHANGED <<workerVars, kernelVars, taken>>

\* Lines 85-92: thread::spawn of the closure that runs inner.init().
Spawn(t) ==
  /\ pc[t] = "spawn"
  /\ wpc' = "spawned"
  /\ spawns' = spawns + 1
  /\ pc' = [pc EXCEPT ![t] = "once_done"]
  /\ UNCHANGED <<INIT, GLOBAL, inner, newCalls, op, ret, lrefs, rt, polls, refs>>
  /\ UNCHANGED <<wmsg, wcause, entries, count, events, kernelVars, taken>>

\* The closure returns: the Once is complete and its waiters are released.
OnceDone(t) ==
  /\ pc[t] = "once_done"
  /\ INIT' = "done"
  /\ pc' = [pc EXCEPT ![t] = "match_global"]
  /\ UNCHANGED <<GLOBAL, inner, newCalls, spawns, op, ret, lrefs, rt, polls, refs>>
  /\ UNCHANGED <<workerVars, kernelVars, taken>>

\* Lines 96-102: match GLOBAL.
MatchGlobal(g) ==
  CASE g.tag = "Ok" -> Ok(g.val)
    [] g.tag = "Err" -> Err(g.val)
    [] OTHER -> Panic("should be set by now")

\* A Poll::global that counts the lease before it looks at the result.
ReturnGlobal_counts_error(t) ==
  /\ pc[t] = "match_global"
  /\ LET r == MatchGlobal(GLOBAL) IN
       /\ ret' = [ret EXCEPT ![t] = r]
       /\ pc' = [pc EXCEPT ![t] =
                   IF IsPanic(r) THEN "panicked"
                   ELSE IF op[t].name = "Poll::global" THEN "fetch_add"
                   ELSE "idle"]
       /\ rt' = [rt EXCEPT ![t] = @ \/ (r.tag = "Ok" /\ op[t].name = "Rt::global")]
  /\ UNCHANGED <<op, lrefs, polls, refs>>
  /\ UNCHANGED <<onceVars, workerVars, kernelVars, taken>>

\* RtInner::global returns; Rt::global (lines 15-20) wraps an Ok in an Rt,
\* Poll::global (lines 33-44) goes on to count the lease.
ReturnGlobal(t) ==
  /\ pc[t] = "match_global"
  /\ LET r == MatchGlobal(GLOBAL) IN
       /\ ret' = [ret EXCEPT ![t] = r]
       /\ pc' = [pc EXCEPT ![t] =
                   IF IsPanic(r) THEN "panicked"
                   ELSE IF r.tag = "Ok" /\ op[t].name = "Poll::global" THEN "fetch_add"
                   ELSE "idle"]
       /\ rt' = [rt EXCEPT ![t] = @ \/ (r.tag = "Ok" /\ op[t].name = "Rt::global")]
  /\ UNCHANGED <<op, lrefs, polls, refs>>
  /\ UNCHANGED <<onceVars, workerVars, kernelVars, taken>>

\* ------------------------------------------------------ Poll, lines 33-59
fetch_add(v) == (v + 1) % UsizeModulus
\* A decrement by two.
fetch_sub_twice(v) == (v - 2) % UsizeModulus
fetch_sub(v) == (v - 1) % UsizeModulus

\* A construction that takes the value after the increment for the one before.
FetchAdd_returns_new(t) ==
  /\ pc[t] = "fetch_add"
  /\ lrefs' = [lrefs EXCEPT ![t] = fetch_add(refs)]
  /\ refs' = fetch_add(refs)
  /\ pc' = [pc EXCEPT ![t] = "poll_ret"]
  /\ UNCHANGED <<op, ret, rt, polls>>
  /\ UNCHANGED <<onceVars, workerVars, kernelVars, taken>>

\* Line 36: let refs = inner.refs.fetch_add(1, Relaxed).
FetchAdd(t) ==
  /\ pc[t] = "fetch_add"
  /\ lrefs' = [lrefs EXCEPT ![t] = refs]
  /\ refs' = fetch_add(refs)
  /\ pc' = [pc EXCEPT ![t] = "poll_ret"]
  /\ UNCHANGED <<op, ret, rt, polls>>
  /\ UNCHANGED <<onceVars, workerVars, kernelVars, taken>>

\* Line 42: the Poll is built and returned to the caller.
PollReturn(t) ==
  /\ pc[t] = "poll_ret"
  /\ polls' = [polls EXCEPT ![t] = @ + 1]
  /\ lrefs' = [lrefs EXCEPT ![t] = 0]
  /\ pc' = [pc EXCEPT ![t] = "idle"]
  /\ UNCHANGED <<op, ret, rt, refs>>
  /\ UNCHANGED <<onceVars, workerVars, kernelVars, taken>>

\* A drop that closes the port when it uncounts the last lease.
Drop_teardown(t) ==
  /\ pc[t] \in {"idle", "panicked"}
  /\ polls[t] > 0
  /\ lrefs' = [lrefs EXCEPT ![t] = refs]
  /\ refs' = fetch_sub(refs)
  /\ polls' = [polls EXCEPT ![t] = @ - 1]
  /\ pc' = [pc EXCEPT ![t] = IF @ = "idle" THEN "drop_ret" ELSE "unwind_ret"]
  /\ ports' = IF refs = 1 THEN ports \ {GLOBAL.val} ELSE ports
  /\ UNCHANGED <<op, ret, rt>>
  /\ UNCHANGED <<onceVars, workerVars, assoc, queue, nextTok, taken>>

\* Lines 51-59: a Poll the thread holds goes out of scope, or is dropped while a
\* panic unwinds the thread.  Line 53: let refs = inner.refs.fetch_sub(1, Relaxed).
Drop(t) ==
  /\ pc[t] \in {"idle", "panicked"}
  /\ polls[t] > 0
  /\ lrefs' = [lrefs EXCEPT ![t] = refs]
  /\ refs' = fetch_sub(refs)
  /\ polls' = [polls EXCEPT ![t] = @ - 1]
  /\ pc' = [pc EXCEPT ![t] = IF @ = "idle" THEN "drop_ret" ELSE "unwind_ret"]
  /\ UNCHANGED <<op, ret, rt>>
  /\ UNCHANGED <<onceVars, workerVars, kernelVars, taken>>

\* drop returns.
DropReturn(t) ==
  /\ pc[t] \in {"drop_ret", "unwind_ret"}
  /\ lrefs' = [lrefs EXCEPT ![t] = 0]
  /\ pc' = [pc EXCEPT ![t] = IF @ = "drop_ret" THEN "idle" ELSE "panicked"]
  /\ UNCHANGED <<op, ret, rt, polls, refs>>
  /\ UNCHANGED <<onceVars, workerVars, kernelVars, taken>>

\* ------------------------------------------------ the kernel's completion port
\* CreateIoCompletionPort(sock, iocp, key, 0): a socket that is associated with no
\* port yet becomes associated and the call returns iocp; a handle that is no
\* socket, or one that is associated already, is refused and the call returns NULL.
CanAssociate(sock) == sock \in Sockets /\ assoc[sock].port = NULL
KernelAssociate(sock, iocp) == IF CanAssociate(sock) THEN iocp ELSE NULL

\* The completion packet of a finished operation: its OVERLAPPED (tok), the key
\* its socket was associated under, and the OVERLAPPED's Internal (status) and
\* InternalHigh (bytes).  sock records which socket the operation was on.
Packet(tok, sock, bytes, status) ==
  [tok |-> tok, key |-> assoc[sock].key, sock |-> sock, bytes |-> bytes,
   status |-> status]

\* An asynchronous operation on an associated socket finishes: the kernel queues
\* its completion packet on the port.  At most limit operations finish.
Post(sock, bytes, status, limit) ==
  /\ assoc[sock].port # NULL
  /\ nextTok <= limit
  /\ queue' = Append(queue, Packet(nextTok, sock, bytes, status))
  /\ nextTok' = nextTok + 1
  /\ UNCHANGED <<ports, assoc, taken, refs>>
  /\ UNCHANGED <<onceVars, callerVars, workerVars>>

Min(a, b) == IF a < b THEN a ELSE b
Tail_n(q, n) == SubSeq(q, n + 1, Len(q))

\* ------------------------------------- RtInner::associate_socket, lines 128-142
AssociateCall(t, sock) ==
  /\ pc[t] = "idle"
  /\ rt[t]
  /\ pc' = [pc EXCEPT ![t] = "associate"]
  /\ op' = [op EXCEPT ![t] = Call("associate_socket", sock)]
  /\ ret' = [ret EXCEPT ![t] = None]
  /\ UNCHANGED <<lrefs, rt, polls, refs>>
  /\ UNCHANGED <<onceVars, workerVars, kernelVars, taken>>

\* A comparison the wrong way round.
AssociateResult_inverted(res, iocp) ==
  IF res = iocp THEN Err(AssocError) ELSE Ok(0)

\* A result that does not look at what the kernel returned.
AssociateResult_unchecked(res, iocp) == Ok(0)

\* Lines 137-141: the result of the call, from what the kernel returned.
AssociateResult(res, iocp) ==
  IF res # iocp THEN Err(AssocError) ELSE Ok(0)

AssociateReturn(t) ==
  /\ pc[t] = "associate"
  /\ LET sock == op[t].arg
         iocp == GLOBAL.val
         res == KernelAssociate(sock, iocp)
     IN /\ assoc' = IF res = NULL THEN assoc
                    ELSE [assoc EXCEPT ![sock] = [port |-> iocp, key |-> CompletionKey]]
        /\ ret' = [ret EXCEPT ![t] = AssociateResult(res, iocp)]
  /\ pc' = [pc EXCEPT ![t] = "idle"]
  /\ UNCHANGED <<op, lrefs, rt, polls, refs, ports, queue, nextTok, taken>>
  /\ UNCHANGED <<onceVars, workerVars>>

\* ------------------------------------------------ RtInner::poll, lines 144-160
PollCall(t) ==
  /\ pc[t] = "idle"
  /\ polls[t] > 0
  /\ pc' = [pc EXCEPT ![t] = "poll_wait"]
  /\ op' = [op EXCEPT ![t] = Call("poll", 0)]
  /\ ret' = [ret EXCEPT ![t] = None]
  /\ UNCHANGED <<lrefs, rt, polls, refs>>
  /\ UNCHANGED <<onceVars, workerVars, kernelVars, taken>>

\* Lines 156-159: assert!(res == api::TRUE); Ok(()).
PollResult(res) ==
  IF res THEN Ok(0) ELSE Panic("assertion failed: res == api::TRUE")

\* GetQueuedCompletionStatus(iocp, .., 100_000) returned res, after the wait did
\* what cause says.
PollFinish(t, res, cause) ==
  /\ ret' = [ret EXCEPT ![t] = PollResult(res)]
  /\ pc' = [pc EXCEPT ![t] = IF IsPanic(PollResult(res)) THEN "panicked" ELSE "idle"]
  /\ op' = [op EXCEPT ![t].wait = cause]
  /\ UNCHANGED <<lrefs, rt, polls, refs, ports, assoc, nextTok>>
  /\ UNCHANGED <<onceVars, workerVars>>

\* The wait dequeues the packet at the head of the queue.  The call returns TRUE
\* for the packet of an operation that succeeded and FALSE for the packet of one
\* that failed.
PollDequeue(t) ==
  /\ pc[t] = "poll_wait"
  /\ queue # <<>>
  /\ queue' = Tail(queue)
  /\ taken' = taken \cup {Head(queue)}
  /\ PollFinish(t, Head(queue).status = 0,
                IF Head(queue).status = 0 THEN "dequeued" ELSE "failed_op")

\* No packet arrives within the 100 seconds: the call returns FALSE with
\* GetLastError() = WAIT_TIMEOUT.
PollTimeout(t) ==
  /\ pc[t] = "poll_wait"
  /\ queue = <<>>
  /\ UNCHANGED <<queue, taken>>
  /\ PollFinish(t, FALSE, "timeout")

\* ------------------------------------------------ RtInner::init, lines 164-211
\* Lines 86-91: the spawned closure matches GLOBAL and enters init.
WorkerStart ==
  /\ wpc = "spawned"
  /\ IF GLOBAL.tag = "Ok"
       THEN wpc' = "wait" /\ wmsg' = wmsg
       ELSE wpc' = "panicked" /\ wmsg' = "should not be possible"
  /\ UNCHANGED <<wcause, entries, count, events, refs, taken>>
  /\ UNCHANGED <<onceVars, callerVars, kernelVars>>

\* GetQueuedCompletionStatusEx(iocp, entries, 128, &count, 10_000, FALSE) removes
\* up to 128 packets from the head of the queue and returns TRUE.
WorkerDequeue ==
  /\ wpc = "wait"
  /\ queue # <<>>
  /\ LET n == Min(Len(queue), BatchCapacity) IN
       /\ entries' = SubSeq(queue, 1, n)
       /\ count' = n
       /\ queue' = Tail_n(queue, n)
  /\ wpc' = "iterate"
  /\ UNCHANGED <<wmsg, wcause, events, ports, assoc, nextTok, refs, taken>>
  /\ UNCHANGED <<onceVars, callerVars>>

\* Line 179: assert!(res == api::TRUE, ..) on a wait that returned FALSE.
AssertDequeued(res) == IF res THEN "wait" ELSE "panicked"

\* No packet arrives within the 10 seconds: the call returns FALSE with
\* GetLastError() = WAIT_TIMEOUT and count = 0.
WorkerTimeout ==
  /\ wpc = "wait"
  /\ queue = <<>>
  /\ wpc' = AssertDequeued(FALSE)
  /\ wcause' = "timeout"
  /\ wmsg' = IF wpc' = "panicked" THEN "failed to dequeue completion status" ELSE wmsg
  /\ UNCHANGED <<entries, count, events, refs, taken>>
  /\ UNCHANGED <<onceVars, callerVars, kernelVars>>

\* The event the loop makes of one entry (lines 182-185): the operation's
\* OVERLAPPED with its status and byte count.
Event(e) == [tok |-> e.tok, status |-> e.status, bytes |-> e.bytes]

\* A loop that stops one entry early.
TraceEntries_short(es, n) == [i \in 1..(n - 1) |-> Event(es[i])]

\* A loop that runs one turn too many and makes a second event of the last entry.
TraceEntries_repeat(es, n) == [i \in 1..(n + 1) |-> Event(es[IF i > n THEN n ELSE i])]

\* Lines 181-186: for i in 0..count, one event per entry.
TraceEntries(es, n) == [i \in 1..n |-> Event(es[i])]

\* The for loop runs; then the next turn of the loop zeroes entries and count.
WorkerIterate ==
  /\ wpc = "iterate"
  /\ events' = events \o TraceEntries(entries, count)
  /\ entries' = <<>>
  /\ count' = 0
  /\ wpc' = "wait"
  /\ UNCHANGED <<wmsg, wcause, refs, taken>>
  /\ UNCHANGED <<onceVars, callerVars, kernelVars>>

WorkerNext == WorkerStart \/ WorkerDequeue \/ WorkerTimeout \/ WorkerIterate

\* RtInner::global, as either wrapper runs it.
GlobalNext(t) ==
  \/ CallOnce(t)
  \/ RunNew(t)
  \/ SetGlobal(t)
  \/ Spawn(t)
  \/ OnceDone(t)
  \/ ReturnGlobal(t)

\* A thread that takes and drops leases and polls.
ConsumerNext(t) ==
  \/ EnterGlobal(t, "Poll::global")
  \/ GlobalNext(t)
  \/ FetchAdd(t)
  \/ PollReturn(t)
  \/ Drop(t)
  \/ DropReturn(t)
  \/ PollCall(t)

\* A thread that registers sockets.
ProducerNext(t) ==
  \/ EnterGlobal(t, "Rt::global")
  \/ GlobalNext(t)
  \/ \E sock \in SocketArgs : AssociateCall(t, sock)
  \/ AssociateReturn(t)

\* The completions of asynchronous operations on the associated sockets.
Complete == \E sock \in Sockets, bytes \in ByteCounts, status \in Statuses :
              Post(sock, bytes, status, MaxOps)

\* Spec: every caller thread takes both kinds of handle, drops leases and polls,
\* on a port on which nothing completes.
Next ==
  \/ \E t \in Threads : EnterGlobal(t, "Rt::global") \/ ConsumerNext(t) \/ PollTimeout(t)
  \/ WorkerStart
  \/ WorkerTimeout

Spec == Init /\ [][Next]_vars

\* SpecIO: the producer registers sockets, operations on the sockets complete,
\* and the consumer's poll and the spawned thread dequeue the completions.
NextIO ==
  \/ ProducerNext(Producer)
  \/ ConsumerNext(Consumer) \/ PollDequeue(Consumer) \/ PollTimeout(Consumer)
  \/ WorkerNext
  \/ Complete

SpecIO == Init /\ [][NextIO]_vars

\* FairSpecIO: the spawned thread is scheduled as long as it can run, and a caller
\* that is inside an operation gets to finish it.
InOperation(t) ==
  /\ pc[t] \notin {"idle", "panicked"}
  /\ ProducerNext(t) \/ ConsumerNext(t) \/ PollDequeue(t) \/ PollTimeout(t)

FairSpecIO ==
  /\ SpecIO
  /\ WF_vars(WorkerNext)
  /\ \A t \in {Producer, Consumer} : WF_vars(InOperation(t))

\* SpecDrain: the spawned thread alone, from the state in which the producer has
\* created the runtime and registered socket 1, while up to MaxPending operations
\* on the socket complete.
InitDrain ==
  /\ INIT = "done"
  /\ GLOBAL = Ok(16)
  /\ inner = Ok(16)
  /\ refs = 0
  /\ pc = [t \in Threads |-> "idle"]
  /\ op = [t \in Threads |-> IF t = Producer THEN Call("associate_socket", 1) ELSE NoOp]
  /\ ret = [t \in Threads |-> IF t = Producer THEN Ok(0) ELSE None]
  /\ lrefs = [t \in Threads |-> 0]
  /\ rt = [t \in Threads |-> t = Producer]
  /\ polls = [t \in Threads |-> 0]
  /\ wpc = "spawned"
  /\ wmsg = ""
  /\ wcause = "none"
  /\ entries = <<>>
  /\ count = 0
  /\ events = <<>>
  /\ taken = {}
  /\ ports = {16}
  /\ assoc = [s \in Sockets |-> IF s = 1 THEN [port |-> 16, key |-> CompletionKey]
                                ELSE Unassociated]
  /\ queue = <<>>
  /\ nextTok = 1
  /\ newCalls = 1
  /\ spawns = 1

CompleteDrain == Post(1, 42, 0, MaxPending)

NextDrain == WorkerNext \/ CompleteDrain

SpecDrain == InitDrain /\ [][NextDrain]_vars

\* ---------------------------------------------------------------- properties
\* A call of Rt::global or Poll::global that has returned to its caller.
GlobalReturned(t) ==
  /\ op[t].name \in {"Rt::global", "Poll::global"}
  /\ ret[t] # None

\* C1: however the first calls of global() interleave, RtInner::new runs at most
\* once, it has run exactly once when a call has returned, and every call that
\* has returned gave the same outcome: the same core, or an error of the same code.
C1_CreatedOnce ==
  /\ newCalls <= 1
  /\ \A t \in Threads : GlobalReturned(t) =>
       /\ newCalls = 1
       /\ ret[t].tag \in {"Ok", "Err"}
       /\ \A u \in Threads : GlobalReturned(u) => ret[u] = ret[t]

\* Every thread's call has returned, with the one core.
C1_Witness ==
  /\ \A t \in Threads : GlobalReturned(t) /\ ret[t].tag = "Ok" /\ pc[t] = "idle"
  /\ \E t \in Threads : op[t].name = "Rt::global"
  /\ \E t \in Threads : op[t].name = "Poll::global"

\* C2: once creation has failed with code e the cached failure stays: GLOBAL never
\* changes again, RtInner::new is not run again, and every call of global() that
\* returns, returns an error with code e.
C2_FailureCached ==
  /\ [](GLOBAL.tag = "Err" =>
          \A t \in Threads : GlobalReturned(t) => ret[t] = Err(GLOBAL.val))
  /\ [][GLOBAL.tag = "Err" => GLOBAL' = GLOBAL /\ newCalls' = newCalls]_vars

\* Creation failed with 1450; a call has returned that error and a later call of
\* another thread is past the Once and about to read the cached result.
C2_Witness ==
  /\ GLOBAL = Err(1450)
  /\ \E t, u \in Threads :
       /\ GlobalReturned(t) /\ ret[t] = Err(1450) /\ pc[t] = "idle"
       /\ pc[u] = "match_global"

\* C3: refs never wraps below zero and counts the leases: it is the number of Poll
\* values alive plus the ones whose construction has incremented it and not yet
\* returned, so it is the number alive when no construction is in that window, and
\* zero when every lease has been dropped.
MidConstruction == {t \in Threads : pc[t] = "poll_ret"}
C3_RefsBalance ==
  /\ refs <= MaxLeases
  /\ refs = LiveLeases + Cardinality(MidConstruction)
  /\ MidConstruction = {} => refs = LiveLeases
  /\ (MidConstruction = {} /\ LiveLeases = 0) => refs = 0

\* Every thread has built a Poll and dropped it again, and refs is back at zero.
C3_Witness ==
  /\ \A t \in Threads :
       /\ op[t].name = "Poll::global" /\ ret[t].tag = "Ok"
       /\ pc[t] = "idle" /\ polls[t] = 0
  /\ refs = 0

\* C4: a poll() whose wait times out, no completion being queued, returns to its
\* caller, and what it returns is not an error.
C4_TimeoutIsNoError ==
  \A t \in Threads : (op[t].name = "poll" /\ op[t].wait = "timeout") =>
     /\ ~IsPanic(ret[t])
     /\ ret[t].tag # "Err"
     /\ pc[t] = "idle"

\* C5: associate_socket and poll never panic: a caller that is in or has left one
\* of them is not unwinding, and what it was given is a success or an error value.
C5_CallersNeverPanic ==
  \A t \in Threads : op[t].name \in {"associate_socket", "poll"} =>
     /\ pc[t] \notin {"panicked", "unwind_ret"}
     /\ ret[t].tag \in {"None", "Ok", "Err"}

\* C6: a batch wait of the dispatch loop that times out is no failure: the loop is
\* still running after it.
C6_TimeoutKeepsLoopRunning ==
  wcause = "timeout" => (wpc \in {"wait", "iterate"} /\ wmsg = "")

\* C7: the dispatch loop neither loses nor duplicates a completion.  Each wait
\* takes all the K queued packets when K <= 128 and 128 of them otherwise, each
\* turn of the loop makes exactly one event of each packet it took, and the events
\* made so far, the batch in hand and the queue are, in this order, the completed
\* operations 1, 2, .. each exactly once.
Toks(q) == [i \in 1..Len(q) |-> q[i].tok]
C7_BatchDrain ==
  /\ [](Toks(events) \o Toks(entries) \o Toks(queue) = [i \in 1..(nextTok - 1) |-> i])
  /\ [](\A i \in 1..Len(events) : events[i] = [tok |-> i, status |-> 0, bytes |-> 42])
  /\ [][(wpc = "wait" /\ wpc' = "iterate") =>
          /\ count' = Min(Len(queue), BatchCapacity)
          /\ Len(entries') = count'
          /\ Len(queue) <= BatchCapacity => queue' = <<>>]_vars
  /\ [][(wpc = "iterate" /\ wpc' = "wait") =>
          /\ Len(events') = Len(events) + count
          /\ count <= BatchCapacity]_vars

\* More operations than one batch holds have completed, and the loop has made an
\* event of every one of them.
C7_Witness ==
  /\ Len(events) > BatchCapacity
  /\ Len(events) = nextTok - 1
  /\ wpc = "wait"

\* C8: once an operation on socket 1 has completed with 42 bytes while a lease is
\* held, the dispatch loop or a poll() eventually gets its completion.
Completed42 ==
  /\ LiveLeases >= 1
  /\ \E i \in 1..Len(queue) : queue[i].sock = 1 /\ queue[i].bytes = 42 /\ queue[i].tok = 1
Observed42 ==
  \/ \E i \in 1..Len(events) : events[i].tok = 1 /\ events[i].bytes = 42
  \/ \E r \in taken : r.tok = 1 /\ r.bytes = 42
C8_CompletionObserved == Completed42 ~> Observed42

\* C9: associate_socket on a socket that is not yet associated succeeds, and
\* associate_socket on a socket that is associated already returns an error.
C9_SecondAssociationFails ==
  [][\A t \in Threads : (pc[t] = "associate" /\ pc'[t] = "idle") =>
       LET sock == op[t].arg IN
         sock \in Sockets =>
           /\ assoc[sock].port = NULL => ret'[t] = Ok(0)
           /\ assoc[sock].port # NULL => ret'[t].tag = "Err"]_vars

\* The producer has just been refused socket 1, which the port already has.
C9_Witness ==
  /\ op[Producer] = Call("associate_socket", 1)
  /\ ret[Producer].tag = "Err"
  /\ assoc[1].port = GLOBAL.val

\* C10: two sockets registered through associate_socket have different
\* completion keys.
C10_DistinctKeys ==
  \A s1, s2 \in Sockets :
    (s1 # s2 /\ assoc[s1].port # NULL /\ assoc[s2].port # NULL) =>
      assoc[s1].key # assoc[s2].key

\* C11: while a lease is alive a dispatch thread is running the loop: there is no
\* state in which a Poll exists and no thread is draining the port.
Draining == wpc \in {"wait", "iterate"}
C11_LeaseImpliesDraining == LiveLeases >= 1 => Draining

\* C12: with poll() and the dispatch loop waiting on the one port, each completed
\* operation's packet is in exactly one place: still queued, in the batch the loop
\* holds, among the loop's events, or among the packets poll() took; and what one
\* path has taken stays with it.
Occurrences(k) ==
    Cardinality({i \in 1..Len(queue) : queue[i].tok = k})
  + Cardinality({i \in 1..Len(entries) : entries[i].tok = k})
  + Cardinality({i \in 1..Len(events) : events[i].tok = k})
  + Cardinality({r \in taken : r.tok = k})
C12_ConsumedOnce ==
  /\ [](\A k \in 1..MaxOps : Occurrences(k) = IF k < nextTok THEN 1 ELSE 0)
  /\ [][/\ taken \subseteq taken'
        /\ Len(events') >= Len(events)
        /\ SubSeq(events', 1, Len(events)) = events]_vars

\* One packet went to a poll() and another one to the dispatch loop.
C12_Witness ==
  /\ \E r \in taken : \E i \in 1..Len(events) : events[i].tok # r.tok
  /\ op[Consumer].name = "poll"

\* The steps of a thread t at which a lease is counted and uncounted.
Constructs(t) == pc[t] = "fetch_add" /\ pc'[t] = "poll_ret"
Destructs(t) == pc[t] \in {"idle", "panicked"} /\ pc'[t] \in {"drop_ret", "unwind_ret"}

\* C13: the dispatch thread is started by the global() that creates the core,
\* whatever the lease count: it has been spawned whenever the Once is complete with
\* a core.  Counting a lease and uncounting one, the 0 -> 1 and 1 -> 0 transitions
\* included, change refs by one and leave the dispatch thread and the port as
\* they are.
C13_LeasesGateNothing ==
  /\ []((INIT = "done" /\ GLOBAL.tag = "Ok") => (spawns = 1 /\ wpc # "unspawned"))
  /\ [][spawns' # spawns => (refs = 0 /\ LiveLeases = 0 /\ spawns = 0)]_vars
  /\ [][\A t \in Threads :
          /\ Constructs(t) => refs' = refs + 1
          /\ Destructs(t) => refs' = refs - 1
          /\ (Constructs(t) \/ Destructs(t)) =>
               UNCHANGED <<wpc, wmsg, wcause, spawns, GLOBAL, ports>>]_vars

\* The last lease has just been dropped, and the loop is running on the open port.
C13_Witness ==
  /\ \E t \in Threads : pc[t] = "drop_ret" /\ lrefs[t] = 1
  /\ refs = 0
  /\ Draining
  /\ GLOBAL.tag = "Ok" /\ GLOBAL.val \in ports

\* C14: a construction observes 0 exactly when no lease is counted at its
\* fetch_add, a destruction observes 1 exactly when the lease it uncounts is the only
\* one counted; of the constructions that are between their fetch_add and their
\* return at most one has observed 0.
Counted == LiveLeases + Cardinality(MidConstruction)
C14_BoundaryObserved ==
  /\ [](Cardinality({t \in MidConstruction : lrefs[t] = 0}) <= 1)
  /\ [][\A t \in Threads :
          /\ Constructs(t) => (lrefs'[t] = 0 <=> Counted = 0)
          /\ Destructs(t) => (lrefs'[t] = 1 <=> Counted = 1)]_vars

\* Every thread is between fetch_add and return of its first lease, and exactly
\* one of them observed 0.
C14_Witness ==
  /\ \A t \in Threads : pc[t] = "poll_ret"
  /\ LiveLeases = 0
  /\ Cardinality({t \in Threads : lrefs[t] = 0}) = 1

\* C15: nobody reads GLOBAL before the initializer has written it: a caller that
\* is past the Once, or has returned, finds it set, the spawned thread finds the
\* core, and neither "should be set by now" nor "should not be possible" is raised.
C15_NeverUninitialized ==
  /\ \A t \in Threads :
       /\ pc[t] = "match_global" => GLOBAL # None
       /\ GlobalReturned(t) => GLOBAL # None
       /\ ret[t].tag # "should be set by now"
       /\ pc[t] = "panicked" => op[t].name \notin {"Rt::global", "Poll::global"}
  /\ wpc = "spawned" => GLOBAL.tag = "Ok"
  /\ wmsg # "should not be possible"

\* One call has returned, a later one is about to read GLOBAL, and the spawned
\* thread has matched GLOBAL and runs the loop.
C15_Witness ==
  /\ \E t, u \in Threads : GlobalReturned(t) /\ pc[t] = "idle" /\ pc[u] = "match_global"
  /\ Draining

\* C16: once the core is created GLOBAL stays Ok with the same port handle, and
\* that port stays open, whatever runs: global, associate_socket, poll, the
\* construction and drop of leases, the dispatch loop.
C16_PortStable ==
  /\ [](GLOBAL.tag = "Ok" => GLOBAL.val \in ports)
  /\ [](INIT = "done" => GLOBAL = inner)
  /\ [][GLOBAL.tag = "Ok" => (GLOBAL' = GLOBAL /\ ports' = ports)]_vars

\* The last lease has been dropped, a socket is registered and the loop has made
\* an event: the port is the one that was created, and open.
C16_Witness ==
  /\ pc[Consumer] = "drop_ret" /\ lrefs[Consumer] = 1
  /\ assoc[1].port = GLOBAL.val
  /\ Len(events) >= 1
  /\ GLOBAL.tag = "Ok" /\ GLOBAL.val \in ports

\* C17: thread::spawn runs at most once, only in the initializer's closure and only
\* after RtInner::new succeeded; after a failed creation no thread is ever spawned.
C17_OneDispatchThread ==
  /\ [](/\ spawns <= 1
        /\ spawns = 1 => GLOBAL.tag = "Ok"
        /\ GLOBAL.tag = "Err" => (spawns = 0 /\ wpc = "unspawned")
        /\ wpc = "unspawned" <=> spawns = 0)
  /\ [][spawns' # spawns =>
          /\ INIT = "running" /\ newCalls = 1 /\ inner.tag = "Ok"
          /\ \E t \in Threads : pc[t] = "spawn" /\ pc'[t] = "once_done"]_vars

\* Creation failed, every thread has called global() and got the error, and no
\* thread was spawned.
C17_Witness ==
  /\ GLOBAL.tag = "Err"
  /\ \A t \in Threads : GlobalReturned(t) /\ pc[t] = "idle"
  /\ spawns = 0 /\ wpc = "unspawned"

\* C18: after a failed creation Poll::global returns the error and builds no Poll:
\* refs is never incremented, no lease exists and no drop runs.
C18_FailureCountsNothing ==
  GLOBAL.tag = "Err" =>
    /\ refs = 0
    /\ LiveLeases = 0
    /\ \A t \in Threads :
         /\ pc[t] \notin {"fetch_add", "poll_ret", "drop_ret", "unwind_ret"}
         /\ lrefs[t] = 0
         /\ (op[t].name = "Poll::global" /\ ret[t] # None) => ret[t] = Err(GLOBAL.val)

\* Poll::global has returned the cached error 8.
C18_Witness ==
  /\ GLOBAL = Err(8)
  /\ \E t \in Threads :
       /\ op[t].name = "Poll::global" /\ ret[t] = Err(8)
       /\ pc[t] = "idle" /\ polls[t] = 0
  /\ refs = 0

\* C19: associate_socket returns Ok exactly when the kernel's call returns the
\* runtime's own port handle, and an error otherwise; either way it leaves refs,
\* the leases, GLOBAL, the port and the dispatch thread as they are, and no socket
\* other than its argument changes its association.
C19_AssociateFrame ==
  [][\A t \in Threads : (pc[t] = "associate" /\ pc'[t] = "idle") =>
       LET sock == op[t].arg
           res == KernelAssociate(sock, GLOBAL.val)
       IN /\ res = GLOBAL.val => ret'[t] = Ok(0)
          /\ res # GLOBAL.val => ret'[t] = Err(AssocError)
          /\ UNCHANGED <<refs, polls, GLOBAL, ports, wpc, wmsg, queue, spawns>>
          /\ \A s \in Sockets \ {sock} : assoc'[s] = assoc[s]]_vars

\* The producer was refused the handle that is no socket, after socket 1 was
\* registered; the loop is still running.
C19_Witness ==
  /\ op[Producer] = Call("associate_socket", 99)
  /\ ret[Producer] = Err(AssocError)
  /\ assoc[1].port = GLOBAL.val
  /\ Draining

====
